---- MODULE Spec2Model ----
(***************************************************************************)
(* motop: a "top" clone for MongoDB (src/motop.py).                        *)
(*                                                                         *)
(* The module models the console loop of motop.py (__main__), the two     *)
(* ListPrinter tables, the per-server counters of Server, the terminal     *)
(* mode handled by ConsoleActivator / ConsoleDeactivator, and the pure     *)
(* rendering functions (Value.__str__, Operation.line, Query.line).        *)
(*                                                                         *)
(* Python values are modelled as follows.                                  *)
(*   str            a TLA+ string; len is Len, + is \o, [:n] is SubSeq     *)
(*   None / absent  the empty tuple <<>> for an optional number (a present *)
(*                  number n is <<n>>); the string NoButton for a button   *)
(*   dict           a record; a missing key is a missing field             *)
(*   an exception   a result record whose field raised is TRUE             *)
(***************************************************************************)
EXTENDS Integers, Sequences, FiniteSets, TLC

VARIABLES
    python,          \* major version of the interpreter running the script (2 or 3)
    pc,              \* position of __main__ in the loop of lines 282-305
    button,          \* the variable button of __main__
    term,            \* mode of the terminal: "raw" (cbreak) or "canonical"
    settings,        \* ConsoleActivator.__settings, the mode saved by tcgetattr
    srv,             \* per server: Server.__operationCount and Server.__flushCount
    serverTable,     \* Server.listPrinter: [printables, columnWidths]
    queryTable,      \* Query.listPrinter: [printables, columnWidths]
    serverName,      \* the answer to 'Server: ' in askForOperation
    operationInput,  \* the variable operationInput of __main__
    operation,       \* the variable operation of __main__
    exit,            \* why the loop was left ("none" while it runs)
    report,          \* what the last step told the operator
    calls,           \* adapter calls made by the last step
    keyRead,         \* the key the last step read from the keyboard (NoKey when it read none)
    submitted,       \* the records the last tick handed to Query.listPrinter.reset
    buttonFrom,      \* the call that assigned button since the tick: "checkButton" (line 288),
                     \* "getButton" (line 303), "askForOperation" (line 305); "none" in a tick
    lastCum,         \* per server and metric, the cumulative value last handed to the delta operation
    frame            \* what console.refresh () has sampled and printed in this tick (kept until the poll)

vars == <<python, pc, button, term, settings, srv, serverTable, queryTable,
          serverName, operationInput, operation, exit, report, calls, keyRead,
          submitted, buttonFrom,
          lastCum, frame>>

----------------------------------------------------------------------------
(* Bounds of the model *)

\* largest value of one opcounters entry an adapter reports in specification SpecSampling
MaxOpCount == 1
\* largest cumulative flush count an adapter reports in specification SpecSampling
MaxFlush == 1
\* most operations one server reports in flight in one tick
MaxInprog == 2

----------------------------------------------------------------------------
(* Strings *)

Min(a, b) == IF a < b THEN a ELSE b

Digit(d) ==
    CASE d = 0 -> "0" [] d = 1 -> "1" [] d = 2 -> "2" [] d = 3 -> "3" [] d = 4 -> "4"
      [] d = 5 -> "5" [] d = 6 -> "6" [] d = 7 -> "7" [] d = 8 -> "8" [] d = 9 -> "9"

RECURSIVE NatStr(_)
NatStr(n) == IF n < 10 THEN Digit(n) ELSE NatStr(n \div 10) \o Digit(n % 10)

\* int.__str__: the decimal numeral, with a sign for a negative number
IntStr(n) == IF n < 0 THEN "-" \o NatStr(0 - n) ELSE NatStr(n)

\* str [:n]
Truncate(s, n) == SubSeq(s, 1, Min(n, Len(s)))

\* code points of the characters that occur in the server names of the model
Ord(c) ==
    CASE c = "1" -> 49 [] c = "a" -> 97 [] c = "b" -> 98 [] c = "c" -> 99
      [] c = "d" -> 100 [] c = "e" -> 101 [] c = "i" -> 105 [] c = "l" -> 108
      [] c = "p" -> 112 [] c = "r" -> 114

\* str < str: lexicographic comparison by code point
RECURSIVE StrLess(_, _)
StrLess(a, b) ==
    IF Len(b) = 0 THEN FALSE
    ELSE IF Len(a) = 0 THEN TRUE
    ELSE IF SubSeq(a, 1, 1) # SubSeq(b, 1, 1)
         THEN Ord(SubSeq(a, 1, 1)) < Ord(SubSeq(b, 1, 1))
         ELSE StrLess(SubSeq(a, 2, Len(a)), SubSeq(b, 2, Len(b)))

----------------------------------------------------------------------------
(* class Value *)

\* int (round (self / d)), given the floored quotient q and how the remainder
\* r compares with half of d (sign of 2r - d).  Python 2 divides two ints by
\* flooring, and round of the floored quotient is the quotient; Python 3
\* divides truly and rounds a half to the even neighbour.
Rounded(q, half, py) ==
    IF py = 2 THEN q
    ELSE IF half > 0 \/ (half = 0 /\ q % 2 = 1) THEN q + 1 ELSE q

\* the sign of a - b
Sign(a, b) == IF a > b THEN 1 ELSE IF a = b THEN 0 ELSE 0 - 1

\* Value.__str__ of the non-negative number hi * 10^6 + lo with 0 <= lo < 10^6
\* (the checker's integers end below 10^10, so a magnitude is held in two parts)
ValueStrWide(hi, lo, py) ==
    IF hi > 1000000 \/ (hi = 1000000 /\ lo > 0)                          \* self > 10 ** 12
    THEN IntStr(Rounded(hi \div 1000000,
                        IF hi % 1000000 = 500000 THEN Sign(lo, 0) ELSE Sign(hi % 1000000, 500000),
                        py)) \o "T"
    ELSE IF hi > 1000 \/ (hi = 1000 /\ lo > 0)                           \* self > 10 ** 9
    THEN IntStr(Rounded(hi \div 1000, Sign((hi % 1000) * 1000000 + lo, 500000000), py)) \o "G"
    ELSE IF hi > 1 \/ (hi = 1 /\ lo > 0)                                 \* self > 10 ** 6
    THEN IntStr(Rounded(hi, Sign(lo, 500000), py)) \o "M"
    ELSE IF hi * 1000000 + lo > 1000                                     \* self > 10 ** 3
    THEN IntStr(Rounded((hi * 1000000 + lo) \div 1000, Sign((hi * 1000000 + lo) % 1000, 500), py)) \o "K"
    ELSE IntStr(lo)

\* Value.__str__: a negative number is above no threshold
ValueStr(self, py) ==
    IF self < 0 THEN IntStr(self) ELSE ValueStrWide(self \div 1000000, self % 1000000, py)

----------------------------------------------------------------------------
(* Configuration: the monitored servers, in the order of the sections of  *)
(* the configuration file (Configuration.servers)                          *)

Servers == << [name |-> "replica1", address |-> "h1"], [name |-> "db", address |-> "h2"] >>

ServerNames == {Servers[i].name : i \in 1..Len(Servers)}

\* Server.__init__: both counters start at zero
NewServer == [operationCount |-> 0, flushCount |-> 0]

\* Server.__str__
ServerStr(name) == name

----------------------------------------------------------------------------
(* class Operation, class Query                                            *)
(*   an Operation is [cls |-> "Operation", server, opid]                   *)
(*   a Query is [cls |-> "Query", server, opid, namespace, body, duration] *)
(*   a Server in a table is [cls |-> "Server", name]                       *)

NewOperation(server, opid) == [cls |-> "Operation", server |-> server, opid |-> opid]

NewQuery(server, opid, namespace, body, duration) ==
    [cls |-> "Query", server |-> server, opid |-> opid, namespace |-> namespace,
     body |-> body, duration |-> duration]

\* isinstance (operation, Query)
IsQuery(p) == p.cls = "Query"

\* str (self.__duration): the numeral, or None
DurationStr(duration) == IF duration = <<>> THEN "None" ELSE IntStr(duration[1])

\* json.dumps of a query body.  A body is a flat document: a sequence of
\* <<key, integer>> pairs; its JSON text is {"k": v, "k": v}.
RECURSIVE JsonItems(_)
JsonItems(body) ==
    IF body = <<>> THEN ""
    ELSE "\"" \o Head(body)[1] \o "\": " \o IntStr(Head(body)[2])
         \o (IF Tail(body) = <<>> THEN "" ELSE ", " \o JsonItems(Tail(body)))

JsonDumps(body) == "{" \o JsonItems(body) \o "}"

\* the slice [:80] of Query.line
QueryColumnChars == 80

\* Operation.line
OperationLine(p) == << ServerStr(p.server), IntStr(p.opid) >>

\* Query.line
QueryLine(p) ==
    OperationLine(p) \o
    << p.namespace, DurationStr(p.duration), Truncate(JsonDumps(p.body), QueryColumnChars) >>

\* printable.line () for the records of the operations table
Line(p) == IF IsQuery(p) THEN QueryLine(p) ELSE OperationLine(p)

\* Operation.sortOrder
OperationSortOrder(p) == (0 - 1) * p.opid

\* Query.sortOrder: the duration, or 0 when it is None or 0
QuerySortOrder(p) == IF p.duration # <<>> /\ p.duration[1] # 0 THEN p.duration[1] ELSE 0

\* printable.sortOrder () for the records of the operations table
SortOrder(p) == IF IsQuery(p) THEN QuerySortOrder(p) ELSE OperationSortOrder(p)

\* sortOrder (a) < sortOrder (b): Server.sortOrder is the name, compared as
\* strings; the operations' keys are numbers
SortOrderLess(a, b) ==
    IF a.cls = "Server" THEN StrLess(a.name, b.name) ELSE SortOrder(a) < SortOrder(b)

----------------------------------------------------------------------------
(* class ListPrinter                                                       *)

ServerHeaders == << "Server", "QPS", "Clients", "Queue", "Flushes", "Connections", "Memory" >>
QueryHeaders == << "Server", "OpId", "Namespace", "Sec", "Query" >>

\* maxLine of Query.listPrinter.  The script sets 30; the model scales it to
\* 2 so that a server pair reporting MaxInprog operations each overflows it.
QueryMaxLine == 2

\* the two tables: Server.listPrinter and Query.listPrinter (maxLine None is <<>>)
ServerListPrinter == [columnHeaders |-> ServerHeaders, descendingOrder |-> FALSE, maxLine |-> <<>>]
QueryListPrinter == [columnHeaders |-> QueryHeaders, descendingOrder |-> TRUE, maxLine |-> <<QueryMaxLine>>]

\* ListPrinter.__init__: every column as wide as its header plus 2
InitialWidths(columnHeaders) == [i \in 1..Len(columnHeaders) |-> Len(columnHeaders[i]) + 2]

\* sorted (printables, key = sortOrder, reverse = descendingOrder): a stable
\* sort; with reverse, records of equal key still keep their original order
Sorted(printables, descendingOrder) ==
    LET Before(a, b) == IF descendingOrder THEN SortOrderLess(b, a) ELSE SortOrderLess(a, b)
        RECURSIVE Insert(_, _)
        Insert(s, e) ==
            IF s = <<>> THEN <<e>>
            ELSE IF Before(e, Head(s)) THEN <<e>> \o s
            ELSE <<Head(s)>> \o Insert(Tail(s), e)
        RECURSIVE Go(_, _)
        Go(acc, rest) == IF rest = <<>> THEN acc ELSE Go(Insert(acc, Head(rest)), Tail(rest))
    IN  Go(<<>>, printables)

\* a reset that takes every record twice
ResetTakesTwice(listPrinter, printables) ==
    LET twice == Sorted(printables \o printables, listPrinter.descendingOrder)
    IN  IF listPrinter.maxLine # <<>> /\ listPrinter.maxLine[1] # 0
        THEN SubSeq(twice, 1, Min(listPrinter.maxLine[1], Len(twice)))
        ELSE twice

\* a reset that cuts to maxLine before it sorts
ResetCutsFirst(listPrinter, printables) ==
    IF listPrinter.maxLine # <<>> /\ listPrinter.maxLine[1] # 0
    THEN Sorted(SubSeq(printables, 1, Min(listPrinter.maxLine[1], Len(printables))),
                listPrinter.descendingOrder)
    ELSE Sorted(printables, listPrinter.descendingOrder)

\* ListPrinter.reset: sort, then cut to maxLine when maxLine is set and not 0
Reset(listPrinter, printables) ==
    LET sorted == Sorted(printables, listPrinter.descendingOrder)
    IN  IF listPrinter.maxLine # <<>> /\ listPrinter.maxLine[1] # 0
        THEN SubSeq(sorted, 1, Min(listPrinter.maxLine[1], Len(sorted)))
        ELSE sorted

\* a cell that fits its column to itself, wider or narrower
PrintCellFitsExactly(columnWidths, index, cell) ==
    [columnWidths |-> [columnWidths EXCEPT ![index] = Len(cell) + 2],
     printed |-> [cell |-> cell, width |-> Len(cell) + 2]]

\* one cell of ListPrinter.printLines (lines 66-69): the column grows to the
\* cell's length plus 2 when that is wider, and the cell is left-justified to
\* the column's width
PrintCell(columnWidths, index, cell) ==
    LET widths == IF Len(cell) + 2 > columnWidths[index]
                  THEN [columnWidths EXCEPT ![index] = Len(cell) + 2]
                  ELSE columnWidths
    IN  [columnWidths |-> widths, printed |-> [cell |-> cell, width |-> widths[index]]]

\* one row of ListPrinter.printLines (lines 65-70)
RECURSIVE PrintCellsFrom(_, _, _, _)
PrintCellsFrom(columnWidths, cells, index, printed) ==
    IF index > Len(cells) THEN [columnWidths |-> columnWidths, printed |-> printed]
    ELSE LET c == PrintCell(columnWidths, index, cells[index])
         IN  PrintCellsFrom(c.columnWidths, cells, index + 1, Append(printed, c.printed))

PrintRow(columnWidths, cells) == PrintCellsFrom(columnWidths, cells, 1, <<>>)

\* the header row of ListPrinter.printLines (lines 61-63): every header
\* left-justified to the column's width as it is before any row is printed
PrintHeader(columnHeaders, columnWidths) ==
    [i \in 1..Len(columnHeaders) |-> [cell |-> columnHeaders[i], width |-> columnWidths[i]]]

\* ListPrinter.printLines for the operations table, whose line () has no effect
RECURSIVE PrintRows(_, _, _)
PrintRows(columnWidths, printables, rows) ==
    IF printables = <<>> THEN [columnWidths |-> columnWidths, rows |-> rows]
    ELSE LET r == PrintRow(columnWidths, Line(Head(printables)))
         IN  PrintRows(r.columnWidths, Tail(printables), Append(rows, r.printed))

\* a comparison that finds no difference
DifferentNever(printableLine, line, index) == FALSE

\* a comparison that looks at the first cell only
DifferentInFirstCell(printableLine, line, index) == printableLine[1] # line[1]

\* ListPrinter.getLine: the first printable whose cells equal line at every
\* index below len (line); None (<<>>) when there is none
RECURSIVE Different(_, _, _)
Different(printableLine, line, index) ==
    IF ~(Len(line) > index - 1) THEN FALSE
    ELSE IF printableLine[index] # line[index] THEN TRUE
    ELSE Different(printableLine, line, index + 1)

RECURSIVE GetLine(_, _)
GetLine(printables, line) ==
    IF printables = <<>> THEN <<>>
    ELSE IF ~Different(Line(Head(printables)), line, 1) THEN <<Head(printables)>>
    ELSE GetLine(Tail(printables), line)

----------------------------------------------------------------------------
(* The adapter (pymongo Connection): what a server answers                 *)
(*   a call that raises is [ok |-> FALSE]                                  *)
(*   serverStatus is [ok |-> TRUE, doc |-> the status document]            *)
(*   current_op is [ok |-> TRUE, inprog |-> the documents in progress]     *)

OpKinds == {"insert", "query"}

\* a status document with the given opcounters and flush count; the gauges
\* are the same in every document
StatusDoc(opcounters, flushes) ==
    [connections |-> [current |-> 12, available |-> 807],
     mem |-> [resident |-> 64, mapped |-> 1500],
     opcounters |-> opcounters,
     globalLock |-> [activeClients |-> [total |-> 3], currentQueue |-> [total |-> 0]],
     backgroundFlushing |-> [flushes |-> flushes]]

\* the same document without one of its top-level fields
Without(doc, key) == [k \in DOMAIN doc \ {key} |-> doc[k]]

Raises == [ok |-> FALSE]

\* status answers of specification Spec: unreachable, two malformed
\* documents (one fails before any counter is touched, one after the
\* operation count was stored) and two well-formed ones
StatusPool ==
    {Raises,
     [ok |-> TRUE, doc |-> Without(StatusDoc([k \in OpKinds |-> 1], 1), "mem")],
     [ok |-> TRUE, doc |-> Without(StatusDoc([k \in OpKinds |-> 1], 1), "backgroundFlushing")],
     [ok |-> TRUE, doc |-> StatusDoc([k \in OpKinds |-> IF k = "query" THEN 1 ELSE 0], 0)],
     [ok |-> TRUE, doc |-> StatusDoc([k \in OpKinds |-> 1], 1)]}

\* status answers of specification SpecSampling: every well-formed document
\* within the bounds; cumulative values may rise, stay or fall between ticks
SamplingStatusPool ==
    {[ok |-> TRUE, doc |-> StatusDoc(c, f)] : c \in [OpKinds -> 0..MaxOpCount], f \in 0..MaxFlush}

\* the documents a server may have in progress, in the order it reports them
InprogDocs ==
    << [opid |-> 101, op |-> "insert", ns |-> "shop.orders", query |-> <<>>, secs_running |-> 0],
       [opid |-> 12, op |-> "query", ns |-> "", query |-> <<>>],
       [opid |-> 7, op |-> "query", ns |-> "shop.orders", query |-> << <<"a", 1>> >>, secs_running |-> 3] >>

\* the subsequences of docs
RECURSIVE SubSeqs(_)
SubSeqs(docs) ==
    IF docs = <<>> THEN {<<>>}
    ELSE LET rest == SubSeqs(Tail(docs))
         IN  rest \cup {<<Head(docs)>> \o t : t \in rest}

\* current_op answers of specification Spec: the call raises, or reports at
\* most MaxInprog of the documents
InprogPool ==
    {Raises} \cup {[ok |-> TRUE, inprog |-> s] : s \in {t \in SubSeqs(InprogDocs) : Len(t) <= MaxInprog}}

\* current_op answers of specification SpecSampling: nothing in progress
QuietInprogPool == {[ok |-> TRUE, inprog |-> <<>>]}

----------------------------------------------------------------------------
(* class Server                                                            *)

\* sum ([value for key, value in operationCounts.items ()])
RECURSIVE SumValues(_, _)
SumValues(operationCounts, keys) ==
    IF keys = {} THEN 0
    ELSE LET k == CHOOSE x \in keys : TRUE
         IN  operationCounts[k] + SumValues(operationCounts, keys \ {k})

\* Server.__getOperationCountChange: store the new total, return new - old
GetOperationCountChange(operationCount, operationCounts) ==
    LET total == SumValues(operationCounts, DOMAIN operationCounts)
    IN  [stored |-> total, change |-> total - operationCount]

\* a delta operation that does not store the new count
GetFlushCountChangeKeepsOld(flushCount, flushes) ==
    [stored |-> flushCount, change |-> flushes - flushCount]

\* Server.__getFlushCountChange: store the new count, return new - old
GetFlushCountChange(flushCount, flushes) ==
    [stored |-> flushes, change |-> flushes - flushCount]

\* Server.line: one serverStatus call, then the cells.  self is the server's
\* counters.  The result tells whether an exception was raised and which,
\* the counters as the call leaves them, the changes returned by the two
\* delta operations (<<>> for one that was not reached) and the cells.
ServerLine(name, self, answer, py) ==
    LET failed(why, counters, changes) ==
            [raised |-> why, self |-> counters, changes |-> changes, cells |-> <<>>]
        doc == answer.doc
    IN  IF ~answer.ok THEN failed("StatusCallFailed", self, [op |-> <<>>, flush |-> <<>>])
        ELSE IF "connections" \notin DOMAIN doc \/ "mem" \notin DOMAIN doc
        THEN failed("MalformedSnapshot", self, [op |-> <<>>, flush |-> <<>>])
        ELSE IF "opcounters" \notin DOMAIN doc
        THEN failed("MalformedSnapshot", self, [op |-> <<>>, flush |-> <<>>])
        ELSE LET oc == GetOperationCountChange(self.operationCount, doc.opcounters)
                 self1 == [self EXCEPT !.operationCount = oc.stored]
             IN  IF "globalLock" \notin DOMAIN doc \/ "backgroundFlushing" \notin DOMAIN doc
                 THEN failed("MalformedSnapshot", self1, [op |-> <<oc.change>>, flush |-> <<>>])
                 ELSE LET fc == GetFlushCountChange(self1.flushCount, doc.backgroundFlushing.flushes)
                          self2 == [self1 EXCEPT !.flushCount = fc.stored]
                          currentConnection == doc.connections.current
                          totalConnection == doc.connections.available + doc.connections.current
                      IN  [raised |-> "",
                           self |-> self2,
                           changes |-> [op |-> <<oc.change>>, flush |-> <<fc.change>>],
                           cells |-> << ServerStr(name),
                                        ValueStr(oc.change, py),
                                        ValueStr(doc.globalLock.activeClients.total, py),
                                        ValueStr(doc.globalLock.currentQueue.total, py),
                                        ValueStr(fc.change, py),
                                        ValueStr(currentConnection, py) \o " / " \o ValueStr(totalConnection, py),
                                        ValueStr(doc.mem.resident, py) \o " / " \o ValueStr(doc.mem.mapped, py) >>]

\* a classification that takes every document for a query without duration
ClassifyAllAsQueries(server, op) == NewQuery(server, op.opid, op.ns, op.query, <<>>)

\* one document of Server.currentOperations (lines 194-200)
Classify(server, op) ==
    IF op.op = "query"
    THEN IF "secs_running" \in DOMAIN op
         THEN NewQuery(server, op.opid, op.ns, op.query, <<op.secs_running>>)
         ELSE NewQuery(server, op.opid, op.ns, op.query, <<>>)
    ELSE NewOperation(server, op.opid)

\* Server.currentOperations: one current_op call, one record per document
CurrentOperations(server, answer) ==
    IF ~answer.ok THEN [raised |-> "OperationsCallFailed", operations |-> <<>>]
    ELSE [raised |-> "",
          operations |-> [i \in 1..Len(answer.inprog) |-> Classify(server, answer.inprog[i])]]

\* the list comprehension of line 285: the operations of the servers in
\* configuration order; an exception of one call ends the comprehension
RECURSIVE AllOperations(_, _, _, _)
AllOperations(answers, index, operations, asked) ==
    IF index > Len(Servers) THEN [raised |-> "", operations |-> operations, asked |-> asked]
    ELSE LET server == Servers[index].name
             r == CurrentOperations(server, answers[server])
             made == asked \cup {[call |-> "current_op", server |-> server, raised |-> r.raised # "",
                                  inprog |-> IF r.raised # "" THEN <<>> ELSE answers[server].inprog]}
         IN  IF r.raised # "" THEN [raised |-> r.raised, operations |-> <<>>, asked |-> made]
             ELSE AllOperations(answers, index + 1, operations \o r.operations, made)

----------------------------------------------------------------------------
(* class ConsoleActivator, class ConsoleDeactivator: tty is the terminal   *)
(* mode together with the settings the activator has saved                 *)

\* ConsoleActivator.__enter__: tcgetattr saves the mode, setcbreak sets raw
ConsoleActivatorEnter(tty) == [term |-> "raw", settings |-> tty.term]

\* ConsoleActivator.__exit__: tcsetattr puts the saved mode back
ConsoleActivatorExit(tty) == [tty EXCEPT !.term = tty.settings]

\* ConsoleDeactivator.__enter__ is the activator's __exit__
ConsoleDeactivatorEnter(tty) == ConsoleActivatorExit(tty)

\* a deactivator whose __exit__ leaves the terminal as the prompt had it
ConsoleDeactivatorExitForgets(tty) == tty

\* ConsoleDeactivator.__exit__ is the activator's __enter__
ConsoleDeactivatorExit(tty) == ConsoleActivatorEnter(tty)

Tty == [term |-> term, settings |-> settings]

SetTty(tty) == term' = tty.term /\ settings' = tty.settings

----------------------------------------------------------------------------
(* class Console: the keyboard                                             *)

NoButton == "None"

\* nothing to read: select reports stdin not readable
NoKey == ""

\* the keys the operator presses
Keys == {"e", "k", "q", "x"}

\* a getButton that takes 'e' for 'k' and 'k' for 'e'
GetButtonSwapsKeys(pressed) ==
    IF pressed = "e" THEN "k" ELSE IF pressed = "k" THEN "e" ELSE IF pressed = "q" THEN "q" ELSE NoButton

\* getButton without the 'q'
GetButtonWithoutQuit(pressed) == IF pressed \in {"e", "k"} THEN pressed ELSE NoButton

\* Console.getButton: the character read, when it is one of e, k, q
GetButton(pressed) == IF pressed \in {"e", "k", "q"} THEN pressed ELSE NoButton

\* Console.checkButton: getButton when stdin is readable, else None
CheckButtonResult(pressed) == IF pressed # NoKey THEN GetButton(pressed) ELSE NoButton

\* what input () gives: a line of text, or an exception (end of input, interrupt)
Answers(texts) == {[raised |-> TRUE, text |-> ""]} \cup {[raised |-> FALSE, text |-> t] : t \in texts}

ServerAnswers == {"", "db", "replica1", "x"}
OpidAnswers == {"", "7", "12", "101"}

----------------------------------------------------------------------------
(* The state after construction: the module's tables and servers exist,    *)
(* button is None and the with statement of line 281 has saved the         *)
(* terminal's canonical mode and set it raw                                *)

NoFrame == [stage |-> "none"]

Init ==
    /\ python \in {2, 3}
    /\ pc = "loop"
    /\ button = NoButton
    /\ term = ConsoleActivatorEnter([term |-> "canonical", settings |-> "canonical"]).term
    /\ settings = ConsoleActivatorEnter([term |-> "canonical", settings |-> "canonical"]).settings
    /\ srv = [n \in ServerNames |-> NewServer]
    /\ serverTable = [printables |-> <<>>, columnWidths |-> InitialWidths(ServerListPrinter.columnHeaders)]
    /\ queryTable = [printables |-> <<>>, columnWidths |-> InitialWidths(QueryListPrinter.columnHeaders)]
    /\ serverName = ""
    /\ operationInput = <<>>
    /\ operation = <<>>
    /\ exit = "none"
    /\ report = "none"
    /\ calls = {}
    /\ keyRead = NoKey
    /\ submitted = <<>>
    /\ buttonFrom = "none"
    /\ lastCum = [n \in ServerNames |-> [op |-> 0, flush |-> 0]]
    /\ frame = NoFrame

\* an exception leaves the with statement of line 281 and ends the program
Crash(why) ==
    /\ pc' = "done"
    /\ exit' = why
    /\ SetTty(ConsoleActivatorExit(Tty))

----------------------------------------------------------------------------
(* The loop of __main__ (lines 282-305).  pc is                            *)
(*   "loop"       at the tests of lines 282, 283 and 289                   *)
(*   "refresh"    in console.refresh () of line 286                        *)
(*   "poll"       before console.checkButton () of line 288                *)
(*   "askServer"  in askForOperation, at input ('Server: ')                *)
(*   "askOpid"    in askForOperation, at input ('OpId: ')                  *)
(*   "resolve"    before Query.listPrinter.getLine of line 292             *)
(*   "act"        at line 294, with the operation found                    *)
(*   "getButton"  before console.getButton () of line 303                  *)
(*   "unwind"     an exception of input () has left askForOperation        *)
(*   "done"       the with statement of line 281 has been left             *)

\* lines 284-285: both tables get their records; the operations are asked
\* of every server in turn
ResetTables(inprogPool) ==
    /\ pc = "loop"
    /\ keyRead' = NoKey
    /\ button = NoButton
    /\ \E answers \in [ServerNames -> inprogPool] :
        LET servers == [i \in 1..Len(Servers) |-> [cls |-> "Server", name |-> Servers[i].name]]
            all == AllOperations(answers, 1, <<>>, {})
        IN  /\ serverTable' = [serverTable EXCEPT !.printables = Reset(ServerListPrinter, servers)]
            /\ calls' = all.asked
            /\ IF all.raised # ""
               THEN /\ Crash(all.raised)
                    /\ UNCHANGED <<queryTable, submitted>>
               ELSE /\ queryTable' = [queryTable EXCEPT !.printables = Reset(QueryListPrinter, all.operations)]
                    /\ submitted' = all.operations
                    /\ pc' = "refresh"
                    /\ UNCHANGED <<term, settings, exit>>
    /\ report' = "none"
    /\ buttonFrom' = "none"
    /\ UNCHANGED <<python, button, srv, serverName, operationInput, operation, lastCum, frame>>

\* the number of rows of the servers table that console.refresh () has printed
RowsPrinted == IF frame.stage = "none" THEN 0 ELSE Len(frame.servers.rows)

\* line 286, in ListPrinter.printLines of the servers table (lines 61-70):
\* the next row.  Before the first row the screen is cleared and the header
\* is printed.  line () of the server samples it: one serverStatus call and
\* the two delta operations; an exception of it ends the program.
PrintServerLine(statusPool) ==
    /\ pc = "refresh"
    /\ keyRead' = NoKey
    /\ RowsPrinted < Len(serverTable.printables)
    /\ \E answer \in statusPool :
        LET name == serverTable.printables[RowsPrinted + 1].name
            l == ServerLine(name, srv[name], answer, python)
            r == PrintRow(serverTable.columnWidths, l.cells)
            begun == IF frame.stage = "none"
                     THEN [stage |-> "servers",
                           servers |-> [header |-> PrintHeader(ServerHeaders, serverTable.columnWidths),
                                        rows |-> <<>>],
                           changes |-> [n \in ServerNames |-> [op |-> <<>>, flush |-> <<>>]],
                           before |-> lastCum]
                     ELSE frame
        IN  /\ srv' = [srv EXCEPT ![name] = l.self]
            /\ calls' = {[call |-> "serverStatus", server |-> name, raised |-> ~answer.ok]}
            /\ lastCum' = [lastCum EXCEPT
                             ![name].op = IF l.changes.op # <<>>
                                          THEN SumValues(answer.doc.opcounters, DOMAIN answer.doc.opcounters)
                                          ELSE @,
                             ![name].flush = IF l.changes.flush # <<>>
                                             THEN answer.doc.backgroundFlushing.flushes
                                             ELSE @]
            /\ IF l.raised # ""
               THEN /\ Crash(l.raised)
                    /\ frame' = [begun EXCEPT !.changes[name] = l.changes]
                    /\ UNCHANGED serverTable
               ELSE /\ serverTable' = [serverTable EXCEPT !.columnWidths = r.columnWidths]
                    /\ frame' = [begun EXCEPT !.changes[name] = l.changes,
                                              !.servers.rows = Append(@, r.printed)]
                    /\ UNCHANGED <<pc, term, settings, exit>>
    /\ report' = "none"
    /\ UNCHANGED <<python, button, queryTable, serverName, operationInput, operation, submitted,
                   buttonFrom>>

\* lines 286-287: the servers table is printed; ListPrinter.printLines of the
\* operations table, then the loop sleeps
PrintQueryLines ==
    /\ pc = "refresh"
    /\ keyRead' = NoKey
    /\ RowsPrinted = Len(serverTable.printables)
    /\ LET q == PrintRows(queryTable.columnWidths, queryTable.printables, <<>>)
       IN  /\ queryTable' = [queryTable EXCEPT !.columnWidths = q.columnWidths]
           /\ frame' = [stage |-> "drawn",
                        servers |-> frame.servers,
                        changes |-> frame.changes,
                        before |-> frame.before,
                        queries |-> [header |-> PrintHeader(QueryHeaders, queryTable.columnWidths),
                                     rows |-> q.rows]]
    /\ pc' = "poll"
    /\ calls' = {}
    /\ report' = "none"
    /\ UNCHANGED <<python, button, term, settings, srv, serverTable, serverName, operationInput,
                   operation, exit, submitted, buttonFrom, lastCum>>

\* line 288: one poll of the keyboard that does not wait
CheckButton(keys) ==
    /\ pc = "poll"
    /\ \E pressed \in keys : keyRead' = pressed /\ button' = CheckButtonResult(pressed)
    /\ pc' = "loop"
    /\ buttonFrom' = "checkButton"
    /\ frame' = NoFrame
    /\ calls' = {}
    /\ report' = "none"
    /\ UNCHANGED <<python, term, settings, srv, serverTable, queryTable, serverName,
                   operationInput, operation, exit, submitted, lastCum>>

\* a prompt that takes a blank answer as an answer
BlankNever(text) == FALSE

\* lines 251 and 253: an empty answer is falsy
Blank(text) == text = ""

\* line 282 with button 'q': the loop and the with statement end
Quit ==
    /\ pc = "loop"
    /\ keyRead' = NoKey
    /\ button = "q"
    /\ pc' = "done"
    /\ exit' = "q"
    /\ SetTty(ConsoleActivatorExit(Tty))
    /\ calls' = {}
    /\ report' = "none"
    /\ UNCHANGED <<python, button, srv, serverTable, queryTable, serverName,
                   operationInput, operation, submitted, buttonFrom, lastCum, frame>>

\* lines 289-290 and 248-249: askForOperation enters the console deactivator
AskForOperation ==
    /\ pc = "loop"
    /\ keyRead' = NoKey
    /\ button \in {"e", "k"}
    /\ SetTty(ConsoleDeactivatorEnter(Tty))
    /\ pc' = "askServer"
    /\ calls' = {}
    /\ report' = "none"
    /\ UNCHANGED <<python, button, srv, serverTable, queryTable, serverName,
                   operationInput, operation, exit, submitted, buttonFrom, lastCum, frame>>

\* lines 250-251: the server's name is read.  A blank answer ends
\* askForOperation with None, and line 305 sets button to None.
AnswerServer ==
    /\ pc = "askServer"
    /\ keyRead' = NoKey
    /\ \E answer \in Answers(ServerAnswers) :
        IF answer.raised
        THEN /\ SetTty(ConsoleDeactivatorExit(Tty))
             /\ pc' = "unwind"
             /\ UNCHANGED <<button, serverName, operationInput, buttonFrom>>
        ELSE IF Blank(answer.text)
        THEN /\ SetTty(ConsoleDeactivatorExit(Tty))
             /\ operationInput' = <<>>
             /\ button' = NoButton
             /\ buttonFrom' = "askForOperation"
             /\ pc' = "loop"
             /\ UNCHANGED serverName
        ELSE /\ serverName' = answer.text
             /\ pc' = "askOpid"
             /\ UNCHANGED <<term, settings, button, operationInput, buttonFrom>>
    /\ calls' = {}
    /\ report' = "none"
    /\ UNCHANGED <<python, srv, serverTable, queryTable, operation, exit, submitted, lastCum, frame>>

\* lines 252-254: the operation's id is read and askForOperation returns;
\* its local serverName is gone with it
AnswerOpid ==
    /\ pc = "askOpid"
    /\ keyRead' = NoKey
    /\ SetTty(ConsoleDeactivatorExit(Tty))
    /\ \E answer \in Answers(OpidAnswers) :
        IF answer.raised
        THEN /\ pc' = "unwind"
             /\ UNCHANGED <<button, operationInput, buttonFrom>>
        ELSE IF Blank(answer.text)
        THEN /\ operationInput' = <<>>
             /\ button' = NoButton
             /\ buttonFrom' = "askForOperation"
             /\ pc' = "loop"
        ELSE /\ operationInput' = <<serverName, answer.text>>
             /\ pc' = "resolve"
             /\ UNCHANGED <<button, buttonFrom>>
    /\ serverName' = ""
    /\ calls' = {}
    /\ report' = "none"
    /\ UNCHANGED <<python, srv, serverTable, queryTable, operation, exit,
                   submitted, lastCum, frame>>

\* the exception of input () leaves the with statement of line 281
Unwind ==
    /\ pc = "unwind"
    /\ keyRead' = NoKey
    /\ Crash("InputError")
    /\ calls' = {}
    /\ report' = "none"
    /\ UNCHANGED <<python, button, srv, serverTable, queryTable, serverName,
                   operationInput, operation, submitted, buttonFrom, lastCum, frame>>

\* lines 292-293 and 301-302: the answer is looked up in the operations table
Resolve ==
    /\ pc = "resolve"
    /\ keyRead' = NoKey
    /\ operation' = GetLine(queryTable.printables, operationInput)
    /\ IF operation' # <<>>
       THEN pc' = "act" /\ report' = "none"
       ELSE pc' = "getButton" /\ report' = "Invalid operation."
    /\ calls' = {}
    /\ UNCHANGED <<python, button, term, settings, srv, serverTable, queryTable, serverName,
                   operationInput, exit, submitted, buttonFrom, lastCum, frame>>

\* namespace.split ('.', 1): the text before and after the first dot, or
\* <<>> when there is no dot (the unpacking of line 125 then raises)
RECURSIVE SplitDot(_, _)
SplitDot(namespace, index) ==
    IF index > Len(namespace) THEN <<>>
    ELSE IF SubSeq(namespace, index, index) = "."
    THEN << SubSeq(namespace, 1, index - 1), SubSeq(namespace, index + 1, Len(namespace)) >>
    ELSE SplitDot(namespace, index + 1)

\* Query.printExplain: with a namespace, one explain call and the report
PrintExplain(query, answer) ==
    IF query.namespace # ""
    THEN LET names == SplitDot(query.namespace, 1)
         IN  IF names = <<>> THEN [raised |-> "BadNamespace", asked |-> {}, report |-> "none"]
             ELSE LET call == [call |-> "explain", server |-> query.server, database |-> names[1],
                               collection |-> names[2], query |-> query.body, raised |-> ~answer.ok]
                  IN  IF answer.ok THEN [raised |-> "", asked |-> {call}, report |-> "explain"]
                      ELSE [raised |-> "ExplainCallFailed", asked |-> {call}, report |-> "none"]
    ELSE [raised |-> "", asked |-> {}, report |-> "none"]

\* a Kill that goes to the first configured server, whoever owns the record
KillAtFirstServer(op) == {[call |-> "kill", server |-> Servers[1].name, opid |-> op.opid, raised |-> FALSE]}

\* Operation.kill and Server.killOperation: one db.killOp through the mongo shell
Kill(op) == {[call |-> "kill", server |-> op.server, opid |-> op.opid, raised |-> FALSE]}

\* lines 294-300: explain or kill the operation found
Act ==
    /\ pc = "act"
    /\ keyRead' = NoKey
    /\ \E answer \in {Raises, [ok |-> TRUE]} :
        LET op == operation[1]
            e == PrintExplain(op, answer)
        IN  IF button = "e" /\ IsQuery(op)
            THEN /\ calls' = e.asked
                 /\ report' = e.report
                 /\ IF e.raised # "" THEN Crash(e.raised)
                    ELSE pc' = "getButton" /\ UNCHANGED <<term, settings, exit>>
            ELSE /\ calls' = (IF button = "k" THEN Kill(op) ELSE {})
                 /\ report' = (IF button = "e" THEN "Only queries with namespace can be explained."
                               ELSE "none")
                 /\ pc' = "getButton"
                 /\ UNCHANGED <<term, settings, exit>>
    /\ UNCHANGED <<python, button, srv, serverTable, queryTable, serverName, operationInput,
                   operation, submitted, buttonFrom, lastCum, frame>>

\* line 303: getButton waits until a key can be read.  operationInput and
\* operation are assigned anew before the loop reads them again; the model
\* forgets them here.
ReadButton ==
    /\ pc = "getButton"
    /\ \E pressed \in Keys : keyRead' = pressed /\ button' = GetButton(pressed)
    /\ pc' = "loop"
    /\ buttonFrom' = "getButton"
    /\ operationInput' = <<>>
    /\ operation' = <<>>
    /\ calls' = {}
    /\ report' = "none"
    /\ UNCHANGED <<python, term, settings, srv, serverTable, queryTable, serverName,
                   exit, submitted, lastCum, frame>>

Next ==
    \/ ResetTables(InprogPool)
    \/ PrintServerLine(StatusPool)
    \/ PrintQueryLines
    \/ CheckButton(Keys \cup {NoKey})
    \/ Quit
    \/ AskForOperation
    \/ AnswerServer
    \/ AnswerOpid
    \/ Unwind
    \/ Resolve
    \/ Act
    \/ ReadButton

Spec == Init /\ [][Next]_vars

\* the sampling alone: no operation is in progress and the operator only
\* watches or quits, while the servers report every counter value in the bounds
NextSampling ==
    \/ ResetTables(QuietInprogPool)
    \/ PrintServerLine(SamplingStatusPool)
    \/ PrintQueryLines
    \/ CheckButton({NoKey, "q"})
    \/ Quit

SpecSampling == Init /\ [][NextSampling]_vars

----------------------------------------------------------------------------
(* The claims                                                              *)

\* the positions of the loop in which the program is running
Running == {"loop", "refresh", "poll", "askServer", "askOpid", "resolve", "act", "getButton", "unwind"}

\* everything of the program but its position, its exit and the terminal
Program == <<python, button, srv, serverTable, queryTable, serverName, operationInput, operation>>

\* C1: wherever the loop obtains a key (the poll of line 288, the read of
\* line 303), a key 'q' ends the loop: the only step after it is the quit,
\* which samples nothing, refreshes no table, draws nothing, prompts for
\* nothing and calls neither explain nor kill; and after the quit there is
\* no step at all.
C1_QuitEndsLoop ==
    [][ /\ keyRead = "q" =>
             /\ pc' = "done"
             /\ exit' = "q"
             /\ calls' = {}
             /\ report' = "none"
             /\ UNCHANGED <<Program, lastCum, frame, submitted>>
        /\ pc # "done" ]_vars

\* C1 happens: the loop has ended on a 'q' with operations on the screen
C1_Witness == pc = "done" /\ exit = "q" /\ queryTable.printables # <<>>

\* C2 (as claimed): a tick in which the current_op call of one of several
\* servers fails still completes: the loop goes on to draw, every server
\* was asked, and the failing server has no row in the operations table.
C2_TickSurvivesFailedOperationsCall ==
    (\E c \in calls : c.call = "current_op" /\ c.raised) =>
        /\ pc = "refresh"
        /\ \A n \in ServerNames : \E c \in calls : c.call = "current_op" /\ c.server = n
        /\ \A i \in 1..Len(queryTable.printables) :
             \A c \in calls : c.raised => queryTable.printables[i].server # c.server

\* C3 (as claimed): none of the error kinds of the taxonomy ends the loop
\* (a failed status or operations call, a malformed snapshot, a selection
\* not found, a record not explainable, a prompt left blank)
C3_NoTaxonomyErrorEndsLoop ==
    pc = "done" =>
        exit \notin {"OperationsCallFailed", "StatusCallFailed", "MalformedSnapshot",
                     "SelectionNotFound", "NotExplainable", "InputAborted"}

\* C4: the terminal is raw wherever the loop renders, waits for a key,
\* resolves or acts (and while an exception of the prompt unwinds, that is
\* when the prompt has ended on an input error); it is canonical exactly
\* while the prompt is open and once the program has left the loop; and the
\* mode the activator holds saved is the canonical one throughout.
C4_TerminalMode ==
    /\ pc \in {"loop", "refresh", "poll", "resolve", "act", "getButton", "unwind"} => term = "raw"
    /\ pc \in {"askServer", "askOpid", "done"} => term = "canonical"
    /\ settings = "canonical"

\* C4 happens: a prompt has ended on an input error and the program has left the loop
C4_Witness == pc = "done" /\ exit = "InputError" /\ term = "canonical"

Range(seq) == {seq[i] : i \in 1..Len(seq)}

\* C5: for each server and each of its two metrics, the change returned by
\* the delta operation is the cumulative value handed to it minus the one
\* handed to it the time before (0 before the first call, so the first
\* change is the whole cumulative value); the stored value is the value last
\* handed in; and a server's stored values are its own last values whatever
\* the other server was sampled with.  lastCum and frame.before record the
\* values the adapter reported, not what the counters hold.
C5_DeltaIsDifference ==
    \A n \in ServerNames :
        /\ srv[n].operationCount = lastCum[n].op
        /\ srv[n].flushCount = lastCum[n].flush
        /\ frame.stage # "none" =>
             /\ frame.changes[n].op # <<>> =>
                    frame.changes[n].op[1] = lastCum[n].op - frame.before[n].op
             /\ frame.changes[n].flush # <<>> =>
                    frame.changes[n].flush[1] = lastCum[n].flush - frame.before[n].flush

\* C5 happens: a tick after the first one has sampled both servers, one of
\* them with both cumulative values risen, and the servers' totals differ
C5_Witness ==
    /\ frame.stage = "drawn"
    /\ \E n \in ServerNames :
        /\ frame.before[n].op > 0
        /\ lastCum[n].op > frame.before[n].op
        /\ lastCum[n].flush > frame.before[n].flush
        /\ \E m \in ServerNames : lastCum[m].op # lastCum[n].op

\* C6 (as claimed): every change a delta operation returns is non-negative,
\* whatever cumulative values the adapter reports from tick to tick
C6_DeltaNeverNegative ==
    frame.stage # "none" =>
        \A n \in ServerNames :
            /\ frame.changes[n].op # <<>> => frame.changes[n].op[1] >= 0
            /\ frame.changes[n].flush # <<>> => frame.changes[n].flush[1] >= 0

\* C7: after the reset of a tick the operations table holds min (n, maxLine)
\* of the n records handed in, in descending order of their sort key, and no
\* record left out has a higher key than one kept; the servers table, which
\* has no maximum, holds every server in ascending order of its name; and
\* the operations table never holds more than maxLine rows.
C7_ResetKeepsTheBest ==
    /\ Len(queryTable.printables) <= QueryMaxLine
    /\ pc = "refresh" =>
        LET rows == queryTable.printables
            kept == Range(rows)
            dropped == Range(submitted) \ kept
            servers == serverTable.printables
        IN  /\ Len(rows) = Min(Len(submitted), QueryMaxLine)
            /\ kept \subseteq Range(submitted)
            /\ Cardinality(kept) = Len(rows)
            /\ \A i, j \in 1..Len(rows) : i < j => SortOrder(rows[i]) >= SortOrder(rows[j])
            /\ \A d \in dropped : \A k \in kept : SortOrder(d) <= SortOrder(k)
            /\ Len(servers) = Len(Servers)
            /\ {servers[i].name : i \in 1..Len(servers)} = ServerNames
            /\ \A i, j \in 1..Len(servers) : i < j => ~StrLess(servers[j].name, servers[i].name)

\* C7 happens: more records than maxLine were handed in, out of key order,
\* and a record with a lower key than the kept ones was left out
C7_Witness ==
    /\ pc = "refresh"
    /\ Len(submitted) > QueryMaxLine
    /\ SortOrder(submitted[1]) < SortOrder(submitted[Len(submitted)])
    /\ \E d \in Range(submitted) \ Range(queryTable.printables) :
         SortOrder(d) < SortOrder(queryTable.printables[Len(queryTable.printables)])

\* the cells of the rows fit the widths
RowsFit(rows, columnWidths) ==
    \A r \in 1..Len(rows) : \A i \in 1..Len(rows[r]) : columnWidths[i] >= Len(rows[r][i].cell)

\* C8: every column starts as wide as its header plus 2; no step makes a
\* column narrower; and once rows are printed every column is at least as
\* wide as each cell printed in it, so with the widths never shrinking it
\* stays so in all later prints, whatever they hold.
C8_WidthsOnlyGrow ==
    /\ \A i \in 1..Len(ServerHeaders) : serverTable.columnWidths[i] = Len(ServerHeaders[i]) + 2
    /\ \A i \in 1..Len(QueryHeaders) : queryTable.columnWidths[i] = Len(QueryHeaders[i]) + 2
    /\ [][ /\ \A i \in 1..Len(ServerHeaders) : serverTable'.columnWidths[i] >= serverTable.columnWidths[i]
           /\ \A i \in 1..Len(QueryHeaders) : queryTable'.columnWidths[i] >= queryTable.columnWidths[i] ]_vars
    /\ [](frame.stage # "none" => RowsFit(frame.servers.rows, serverTable.columnWidths))
    /\ [](frame.stage = "drawn" => RowsFit(frame.queries.rows, queryTable.columnWidths))

\* C8 happens: a column of the operations table is wider than its header
\* needs, and the rows just printed hold only shorter cells in it
C8_Witness ==
    /\ frame.stage = "drawn"
    /\ \E i \in 1..Len(QueryHeaders) :
        /\ queryTable.columnWidths[i] > Len(QueryHeaders[i]) + 2
        /\ \E r \in 1..Len(frame.queries.rows) : Len(frame.queries.rows[r]) >= i
        /\ \A r \in 1..Len(frame.queries.rows) :
             Len(frame.queries.rows[r]) >= i =>
                Len(frame.queries.rows[r][i].cell) + 2 < queryTable.columnWidths[i]

\* the prefixes of one or two cells the operator can type
Prefixes ==
    {<<s>> : s \in ServerAnswers \ {""}} \cup
    {<<s, o>> : s \in ServerAnswers \ {""}, o \in OpidAnswers \ {""}}

\* the first record, in the order of the generation, whose cells equal the
\* prefix at every position of the prefix; <<>> when there is none
FirstMatch(printables, line) ==
    LET matches == {i \in 1..Len(printables) : \A k \in 1..Len(line) : Line(printables[i])[k] = line[k]}
    IN  IF matches = {} THEN <<>>
        ELSE <<printables[CHOOSE i \in matches : \A j \in matches : i <= j]>>

\* C9: getLine returns the first record of the generation whose cells equal
\* the prefix at every position supplied, for every prefix of one or two
\* cells, and None when no record does; line 292 takes that record, leaves
\* the tables' records and widths as they are, and raises nothing: the loop
\* goes on to act on the record or, without one, to report and read a key.
C9_GetLineFindsFirstMatch ==
    /\ [](\A line \in Prefixes : GetLine(queryTable.printables, line) = FirstMatch(queryTable.printables, line))
    /\ [][ pc = "resolve" =>
             /\ operation' = FirstMatch(queryTable.printables, operationInput)
             /\ pc' = (IF operation' = <<>> THEN "getButton" ELSE "act")
             /\ UNCHANGED <<queryTable, serverTable, exit>> ]_vars

\* C9 happens: the record found is the second row, after a first row of the
\* same server with another operation id
C9_Witness ==
    /\ pc = "act"
    /\ Len(queryTable.printables) = 2
    /\ operation = <<queryTable.printables[2]>>
    /\ queryTable.printables[1].server = queryTable.printables[2].server

\* C10 (as claimed): every record of a table's generation renders as many
\* cells as the table has headers
C10_RowsHaveHeaderArity ==
    /\ \A i \in 1..Len(queryTable.printables) : Len(Line(queryTable.printables[i])) = Len(QueryHeaders)
    /\ frame.stage # "none" =>
         \A r \in 1..Len(frame.servers.rows) : Len(frame.servers.rows[r]) = Len(ServerHeaders)

\* C11 (as claimed): when key 'e' has selected a record without a non-empty
\* namespace (an Operation, or a Query whose namespace is empty) the step
\* makes no call and prints the rejection message; when the record has a
\* non-empty namespace the step makes exactly one explain call, to the
\* server that owns the record.
C11_ExplainOrRejection ==
    [][ pc = "act" /\ button = "e" =>
            IF IsQuery(operation[1]) /\ operation[1].namespace # ""
            THEN /\ Cardinality(calls') = 1
                 /\ \A c \in calls' : c.call = "explain" /\ c.server = operation[1].server
            ELSE /\ calls' = {}
                 /\ report' = "Only queries with namespace can be explained." ]_vars

\* C12: a kill call is made only by the step that acts on a record selected
\* with key 'k', and that step makes exactly one call: a kill at the server
\* that owns the record, with the record's operation id.  Every other step
\* (a tick, a prompt, a selection not found, an 'e') makes no kill call.
C12_OneKillAtTheOwner ==
    [][ IF pc = "act" /\ button = "k"
        THEN /\ Cardinality(calls') = 1
             /\ \A c \in calls' : /\ c.call = "kill"
                                  /\ c.server = operation[1].server
                                  /\ c.opid = operation[1].opid
             /\ pc' = "getButton"
        ELSE \A c \in calls' : c.call # "kill" ]_vars

\* C12 happens: the operation killed belongs to the second configured
\* server while the table also holds an operation of the first
C12_Witness ==
    /\ pc = "getButton"
    /\ \E c \in calls : c.call = "kill" /\ c.server = Servers[2].name
    /\ \E i \in 1..Len(queryTable.printables) : queryTable.printables[i].server = Servers[1].name

\* C13 (as claimed): at each key check, the one of the tick (line 288) and
\* the one after an action or after "Invalid operation." (line 303), the
\* program can go on without a key: a step that reads no key and takes the
\* loop back to its head with no button, from where the next tick is drawn,
\* is possible.  The check never has to wait for the operator.
C13_KeyCheckNeverWaits ==
    pc \in {"poll", "getButton"} =>
        ENABLED (Next /\ keyRead' = NoKey /\ button' = NoButton /\ pc' = "loop")

\* the loop is handling a key 'e' or 'k': it prompts, resolves, acts or
\* waits for the key of line 303
Interaction ==
    \/ pc \in {"askServer", "askOpid", "resolve", "act", "getButton", "unwind"}
    \/ pc = "loop" /\ button \in {"e", "k"}

\* C14: an action (explain, kill, rejection) that raises nothing and the
\* report "Invalid operation." are followed by the key wait of line 303;
\* a key 'e' or 'k' read there becomes the button and leads to the prompt;
\* and from the prompt through the selection, the action and the key wait
\* no step samples a server, resets a table or draws: both tables hold the
\* generation and the widths of the last tick, so the selection that
\* follows is resolved against the same generation as the one before.
C14_FollowUpOnSameGeneration ==
    [][ /\ (pc = "act" /\ pc' # "done") => pc' = "getButton"
        /\ (pc = "resolve" /\ report' = "Invalid operation.") => pc' = "getButton"
        /\ pc = "getButton" =>
             /\ pc' = "loop"
             /\ keyRead' \in {"e", "k"} => button' = keyRead'
        /\ (pc = "loop" /\ button \in {"e", "k"}) => pc' = "askServer"
        /\ Interaction =>
             /\ \A c \in calls' : c.call \notin {"serverStatus", "current_op"}
             /\ UNCHANGED <<serverTable, queryTable, srv, lastCum, frame, submitted>> ]_vars

\* C14 happens: a record has been found for a key that was read at line
\* 303, after an earlier action or report, with no tick in between
C14_Witness ==
    /\ pc = "act"
    /\ buttonFrom = "getButton"
    /\ Len(queryTable.printables) = 2

\* what a blank answer does: askForOperation returns None and line 305
\* sets button to None; nothing is looked up, called or printed
Aborted ==
    /\ pc' = "loop"
    /\ button' = NoButton
    /\ buttonFrom' = "askForOperation"
    /\ calls' = {}
    /\ report' = "none"
    /\ UNCHANGED <<operation, serverTable, queryTable, srv>>

\* C15: a blank server name ends the prompt without asking for the
\* operation id (the id is asked only after a name that is not blank), and
\* a selection is resolved only with both fields not blank; a blank field
\* looks nothing up, calls neither explain nor kill and prints nothing; and
\* the step after it is the start of a tick: the servers are asked for
\* their operations and the tables are reset (or that call fails).
C15_BlankFieldStartsNewTick ==
    [][ /\ pc = "askServer" =>
             \/ pc' = "askOpid" /\ serverName' # ""
             \/ pc' = "unwind"
             \/ Aborted
        /\ pc = "askOpid" =>
             \/ pc' = "resolve" /\ Len(operationInput') = 2
                                /\ operationInput'[1] # "" /\ operationInput'[2] # ""
             \/ pc' = "unwind"
             \/ Aborted
        /\ pc' = "resolve" => pc = "askOpid"
        /\ (pc = "loop" /\ buttonFrom = "askForOperation") =>
             /\ button = NoButton
             /\ pc' \in {"refresh", "done"}
             /\ \E c \in calls' : c.call = "current_op" ]_vars

\* C15 happens: a prompt was ended by a blank field and the loop is at its
\* head with no button
C15_Witness == pc = "loop" /\ buttonFrom = "askForOperation" /\ queryTable.printables # <<>>

\* the magnitudes the servers report as their operation count in
\* specification SpecRender: both sides of the thresholds of Value.__str__
\* that the checker's integers can hold, a half and values between
Magnitudes == {999, 1000, 1500, 1999, 999999, 1234567890}

\* status answers of specification SpecRender: well-formed documents whose
\* operation counters sum to one of the magnitudes
RenderStatusPool ==
    {[ok |-> TRUE, doc |-> StatusDoc([k \in OpKinds |-> IF k = "insert" THEN m ELSE 0], 0)] : m \in Magnitudes}

\* the rendering of Value: the servers report the magnitudes, nothing is in
\* progress and the operator only watches or quits
NextRender ==
    \/ ResetTables(QuietInprogPool)
    \/ PrintServerLine(RenderStatusPool)
    \/ PrintQueryLines
    \/ CheckButton({NoKey, "q"})
    \/ Quit

SpecRender == Init /\ [][NextRender]_vars

\* the renderings the rule allows for the magnitude n < 10^12: the plain
\* integer below 10^3, else n divided by the largest of 10^3, 10^6, 10^9
\* that n exceeds, rounded to a nearest integer (either one at a half),
\* with K, M or G; 10^3 itself, which is neither below 10^3 nor exceeds it,
\* may be rendered either way
RateRenderings(n) ==
    IF n < 1000 THEN {IntStr(n)}
    ELSE LET unit == IF n > 1000000000 THEN 1000000000 ELSE IF n > 1000000 THEN 1000000 ELSE 1000
             suffix == IF unit = 1000000000 THEN "G" ELSE IF unit = 1000000 THEN "M" ELSE "K"
             q == n \div unit
             r == n % unit
             nearest == IF r < unit - r THEN {q} ELSE IF r > unit - r THEN {q + 1} ELSE {q, q + 1}
         IN  {IntStr(x) \o suffix : x \in nearest} \cup (IF n = 1000 THEN {IntStr(n)} ELSE {})

\* C16 (as claimed): every non-negative change printed in the QPS column is
\* rendered by the rule, and 999 is printed as "999", 1500 as "2K", 999999
\* as "1M" and 1234567890 as "1G"
C16_RateValueRender ==
    frame.stage # "none" =>
        \A r \in 1..Len(frame.servers.rows) :
            LET cells == frame.servers.rows[r]
                change == frame.changes[cells[1].cell].op[1]
                cell == cells[2].cell
            IN  change >= 0 =>
                    /\ cell \in RateRenderings(change)
                    /\ change = 999 => cell = "999"
                    /\ change = 1500 => cell = "2K"
                    /\ change = 999999 => cell = "1M"
                    /\ change = 1234567890 => cell = "1G"

\* the documents the current_op call of the tick's reset reported for server
Reported(server) == (CHOOSE c \in calls : c.call = "current_op" /\ c.server = server).inprog

\* the number of documents reported by the servers configured before index
RECURSIVE ReportedBefore(_)
ReportedBefore(index) ==
    IF index = 1 THEN 0 ELSE ReportedBefore(index - 1) + Len(Reported(Servers[index - 1].name))

\* C17: the records handed to the operations table are, server after server
\* in configuration order, one record per document each server reported, in
\* the order reported: a Query with the reported duration for op "query"
\* with secs_running, a Query with no duration for op "query" without it,
\* an Operation for any other op; each with the reporting server as its
\* owner and the reported operation id.
C17_OneRecordPerDocument ==
    (pc = "refresh" /\ \E c \in calls : c.call = "current_op") =>
        /\ Len(submitted) = ReportedBefore(Len(Servers) + 1)
        /\ \A s \in 1..Len(Servers) :
             \A i \in 1..Len(Reported(Servers[s].name)) :
                LET doc == Reported(Servers[s].name)[i]
                    record == submitted[ReportedBefore(s) + i]
                IN  /\ record.server = Servers[s].name
                    /\ record.opid = doc.opid
                    /\ IF doc.op = "query"
                       THEN /\ record.cls = "Query"
                            /\ record.duration = (IF "secs_running" \in DOMAIN doc
                                                  THEN <<doc.secs_running>> ELSE <<>>)
                       ELSE record.cls = "Operation"

\* C17 happens: the two servers have reported documents of all three kinds
C17_Witness ==
    /\ pc = "refresh"
    /\ \E c \in calls : c.call = "current_op"
    /\ \E i, j, k \in 1..Len(submitted) :
        /\ submitted[i].cls = "Operation"
        /\ submitted[j].cls = "Query" /\ submitted[j].duration = <<>>
        /\ submitted[k].cls = "Query" /\ submitted[k].duration # <<>>
        /\ submitted[i].server # submitted[k].server

\* C18: a server is sampled (one serverStatus call, then its two delta
\* operations) only by the step that prints its row in a tick, and only if
\* the tick has not sampled it before; a drawn frame has sampled every
\* server, each metric once, and holds one row per server; and outside of
\* the drawing of a tick (prompting, resolving a selection, explain, kill,
\* the key checks, the reset) every server's stored counts stay as they are.
C18_SampledOncePerTick ==
    /\ [](frame.stage = "drawn" =>
            \A n \in ServerNames :
                /\ frame.changes[n].op # <<>>
                /\ frame.changes[n].flush # <<>>
                /\ Cardinality({r \in 1..Len(frame.servers.rows) : frame.servers.rows[r][1].cell = n}) = 1)
    /\ [][ /\ \A c \in calls' :
                c.call = "serverStatus" =>
                    /\ pc = "refresh"
                    /\ calls' = {c}
                    /\ frame.stage # "none" => frame.changes[c.server] = [op |-> <<>>, flush |-> <<>>]
                    /\ \A m \in ServerNames \ {c.server} : srv'[m] = srv[m]
           /\ srv' # srv => \E c \in calls' : c.call = "serverStatus"
           /\ pc # "refresh" => UNCHANGED <<srv, lastCum>> ]_vars

\* C18 happens: after a tick that stored counts, an operation was selected
\* and killed, and the loop waits for a key
C18_Witness ==
    /\ pc = "getButton"
    /\ \E c \in calls : c.call = "kill"
    /\ \A n \in ServerNames : srv[n].operationCount > 0 /\ srv[n].flushCount > 0

\* C19: when no record of the operations table's generation has the
\* answered server label and operation id, the step that resolves the
\* answer reports "Invalid operation.", makes no call, leaves both tables'
\* records and widths and every server's counts as they are and goes to the
\* key wait of line 303, which makes no call either.  An operation that a
\* server reported but the maximum cut off is such a case.
C19_NotFoundChangesNothing ==
    [][ /\ (pc = "resolve" /\ FirstMatch(queryTable.printables, operationInput) = <<>>) =>
             /\ report' = "Invalid operation."
             /\ calls' = {}
             /\ pc' = "getButton"
             /\ UNCHANGED <<serverTable, queryTable, srv, exit>>
        /\ report' = "Invalid operation." =>
             pc = "resolve" /\ FirstMatch(queryTable.printables, operationInput) = <<>>
        /\ pc = "getButton" =>
             /\ calls' = {}
             /\ UNCHANGED <<serverTable, queryTable, srv>> ]_vars

\* C19 happens: the answer names an operation that was handed to the reset
\* of the last tick and cut off by the maximum
C19_Witness ==
    /\ pc = "getButton"
    /\ report = "Invalid operation."
    /\ Len(queryTable.printables) = QueryMaxLine
    /\ \E d \in Range(submitted) \ Range(queryTable.printables) :
         operationInput = <<d.server, IntStr(d.opid)>>

\* the header cell and every row's cell of each column have one width
Aligned(printed) ==
    \A r \in 1..Len(printed.rows) :
        \A i \in 1..Len(printed.rows[r]) : printed.rows[r][i].width = printed.header[i].width

\* C20 (as claimed): in each print of a table the header cell and the cells
\* of the rows of a column are left-justified to the same width, in the
\* servers table and in the operations table, also in the print in which a
\* cell is the first to be wider than its column
C20_ColumnsAligned ==
    /\ frame.stage # "none" => Aligned(frame.servers)
    /\ frame.stage = "drawn" => Aligned(frame.queries)

====
